---- MODULE Spec2Model ----
(***************************************************************************)
(* GitHub deployment environments directive of .asf.yaml                   *)
(* (asfyaml/feature/github/deployment_environments.py).                    *)
(*                                                                         *)
(* One run of deployment_environments is a sequence of remote calls; each  *)
(* remote call is one step of the model, so that a failing call can stop   *)
(* the run between any two calls.  The remote repository (environments,    *)
(* their settings and their branch policies) is part of the state, and     *)
(* every call is recorded in `calls`.                                      *)
(***************************************************************************)
EXTENDS Integers, Sequences, FiniteSets, TLC

\* ------------------------------------------------------------------ bounds
MaxPolicies == 2      \* policies in one deployment_branch_policy
MaxReviewers == 2     \* reviewers in one required_reviewers list of a run
MaxRuns == 2          \* runs of the directive with the same .asf.yaml
MaxTolerated == 1     \* answers that are no success and yet let the runs go on
MaxOverLimit == 1     \* reviewers beyond the allowed number in a validated list

\* ------------------------------------------------------- program constants
MaxAllowedReviewers == 6
DefaultWaitTimer == 5
MinOkStatus == 200
MaxOkStatus == 303
NoContentStatus == 204

\* ----------------------------------------------------------------- helpers
Range(s) == {s[n] : n \in 1..Len(s)}

SeqsUpTo(S, n) == UNION {[1..m -> S] : m \in 0..n}

RECURSIVE Flatten(_)
Flatten(ss) == IF ss = <<>> THEN <<>> ELSE Head(ss) \o Flatten(Tail(ss))

\* A python dict with optional keys is a record that carries the set of keys
\* it holds; the field of an absent key holds a fixed filler value.
Has(d, key) == key \in d.keys

\* ------------------------------------------------------------- input space
\* Names are sequences of characters, so that URL quoting can act on them.
EnvNames == {<<"p">>, <<"d", "/", "a">>}
EnvOrder == << <<"p">>, <<"d", "/", "a">> >>

PolicyNames == {"main", "rel"}
StalePolicyName == "old"

\* A reviewer id is an integer or a username (isinstance(username, int)).
RevInt(n) == [type |-> "User", id |-> [is_int |-> TRUE, n |-> n, s |-> ""]]
RevUser(s) == [type |-> "User", id |-> [is_int |-> FALSE, n |-> 0, s |-> s]]
Reviewers == {RevInt(7), RevUser("alice")}
TooManyReviewers == [n \in 1..(MaxAllowedReviewers + MaxOverLimit) |-> RevInt(7)]
SixReviewers == [n \in 1..MaxAllowedReviewers |-> RevInt(7)]
UserIds == [alice |-> 42]

Policy(name) == [name |-> name]

NoDbp ==
  [keys |-> {}, protected_branches |-> FALSE, custom_branch_policies |-> FALSE,
   policies |-> <<>>]

Dbp(pb, cbp, pol) ==
  [keys |-> (IF pb = "absent" THEN {} ELSE {"protected_branches"})
            \cup (IF cbp = "absent" THEN {} ELSE {"custom_branch_policies"})
            \cup (IF pol.has THEN {"policies"} ELSE {}),
   protected_branches |-> (pb = "true"),
   custom_branch_policies |-> (cbp = "true"),
   policies |-> pol.val]

Opt(S, filler) ==
  {[has |-> FALSE, val |-> filler]} \cup {[has |-> TRUE, val |-> v] : v \in S}

Tri == {"absent", "true", "false"}

DbpChoices(polSeqs) ==
  {[has |-> FALSE, val |-> NoDbp]}
  \cup {[has |-> TRUE, val |-> Dbp(pb, cbp, pol)] :
          pb \in Tri, cbp \in Tri, pol \in Opt(polSeqs, <<>>)}

EnvConfig(rev, wt, dbp) ==
  [keys |-> (IF rev.has THEN {"required_reviewers"} ELSE {})
            \cup (IF wt.has THEN {"wait_timer"} ELSE {})
            \cup (IF dbp.has THEN {"deployment_branch_policy"} ELSE {}),
   required_reviewers |-> rev.val,
   wait_timer |-> (IF wt.has THEN wt.val ELSE 0),
   deployment_branch_policy |-> dbp.val]

\* ------------------------------------------------------------ dict access
\* env_config.get("deployment_branch_policy", {})
DbpOf(env_config) ==
  IF Has(env_config, "deployment_branch_policy")
  THEN env_config.deployment_branch_policy ELSE NoDbp

\* truthiness of d.get(key) for a boolean entry: an absent key gives None
GetFlag(d, key) == Has(d, key) /\ d[key]

\* d.get(key, default)
GetOr(d, key, default) == IF Has(d, key) THEN d[key] ELSE default

\* ------------------------------------------- validate_environment_configs
ErrReviewersMissing == "required_reviewers is missing, minimum 1 reviewer is required"
ErrTooManyReviewers == "required_reviewers cannot be more than 6 reviewers"
ErrBothModes ==
  "protected_branches and custom_branch_policies cannot be enabled at the same time, set one of them to false"
ErrPoliciesMissing ==
  "Policies is missing, when custom_branch_policies is enabled, minimum 1 policy is required"

ConfigError(env, msg) == [env |-> env, error |-> msg]

\* not env_config.get("required_reviewers")
ReviewersMissing(env_config) ==
  Len(GetOr(env_config, "required_reviewers", <<>>)) = 0

\* (a slip: ">=" for ">")
ReviewersTooManyFromSix(env_config) ==
  Len(GetOr(env_config, "required_reviewers", <<>>)) >= MaxAllowedReviewers

\* len(env_config.get("required_reviewers", [])) > 6
ReviewersTooMany(env_config) ==
  Len(GetOr(env_config, "required_reviewers", <<>>)) > MaxAllowedReviewers

\* (a slip: "elif", so that the modes are looked at only when the reviewers pass)
BothModesElse(env_config) ==
  /\ Len(GetOr(env_config, "required_reviewers", <<>>)) \in 1..MaxAllowedReviewers
  /\ GetFlag(DbpOf(env_config), "custom_branch_policies")
  /\ GetFlag(DbpOf(env_config), "protected_branches")

\* is_custom_branch_policies and is_protected_branches
BothModes(env_config) ==
  /\ GetFlag(DbpOf(env_config), "custom_branch_policies")
  /\ GetFlag(DbpOf(env_config), "protected_branches")

\* is_custom_branch_policies and not ....get("policies")
PoliciesMissing(env_config) ==
  /\ GetFlag(DbpOf(env_config), "custom_branch_policies")
  /\ Len(GetOr(DbpOf(env_config), "policies", <<>>)) = 0

\* the body of the loop over environments.items()
ValidateOne(env, env_config) ==
  (IF ReviewersMissing(env_config)
     THEN <<ConfigError(env, ErrReviewersMissing)>> ELSE <<>>)
  \o (IF ReviewersTooMany(env_config)
        THEN <<ConfigError(env, ErrTooManyReviewers)>> ELSE <<>>)
  \o (IF BothModes(env_config)
        THEN <<ConfigError(env, ErrBothModes)>> ELSE <<>>)
  \o (IF PoliciesMissing(env_config)
        THEN <<ConfigError(env, ErrPoliciesMissing)>> ELSE <<>>)

\* environments is the ordered mapping: a sequence of [name, config] items
validate_environment_configs(environments) ==
  Flatten([n \in 1..Len(environments) |->
             ValidateOne(environments[n].name, environments[n].config)])

\* ------------------------------------------------------------ URL quoting
\* urllib.parse.quote(env_name, safe=""): every character that is not
\* unreserved becomes %XX.
PercentCode ==
  [c \in {"/", "%", " "} |->
     CASE c = "/" -> <<"%", "2", "F">>
       [] c = "%" -> <<"%", "2", "5">>
       [] c = " " -> <<"%", "2", "0">>]

QuoteChar(c) == IF c \in DOMAIN PercentCode THEN PercentCode[c] ELSE <<c>>

Quote(name) == Flatten([n \in 1..Len(name) |-> QuoteChar(name[n])])

\* The server splits the path at "/" and percent-decodes the segment; a
\* segment that still holds a "/" names no environment (the empty name).
RECURSIVE Unquote(_)
Unquote(seg) ==
  IF seg = <<>> THEN <<>>
  ELSE IF Head(seg) = "%" /\ Len(seg) >= 3
            /\ \E c \in DOMAIN PercentCode : PercentCode[c] = SubSeq(seg, 1, 3)
       THEN <<CHOOSE c \in DOMAIN PercentCode : PercentCode[c] = SubSeq(seg, 1, 3)>>
            \o Unquote(SubSeq(seg, 4, Len(seg)))
       ELSE <<Head(seg)>> \o Unquote(Tail(seg))

Route(seg) == IF "/" \in Range(seg) THEN <<>> ELSE Unquote(seg)

\* ------------------------------------------------------------------ state
VARIABLES
  yaml,             \* [has_environments, environments]: the github section
  noop,             \* self.noop("environments")
  remoteEnvs,       \* environment name -> settings held by the repository
  remotePolicies,   \* environment name -> set of [id, name] branch policies
  nextPolicyId,     \* the id the repository gives the next created policy
  remoteKeepsNames, \* whether the repository answers 200, adding nothing, to the
                    \* POST of a policy name the environment holds already
  pc,               \* the call the run is about to make
  run,              \* number of the current run of the directive
  envIdx,           \* position in environments.items() of the current loop
  subIdx,           \* position in the inner loop (reviewer, policy, deletion)
  reviewersWithId,  \* required_reviewers_with_id of the last list comprehension
  toRemove,         \* environments_to_be_removed
  repoPolicies,     \* repo_deployment_branch_policies of the current environment
  error,            \* the exception that ended the run
  calls,            \* every remote call of the current run, oldest first
  tolerated,        \* answers so far that were no success and raised nothing
  upserts,          \* every create_environment that succeeded, over all runs
  remoteAtStart,    \* the repository as the current run found it
  configErrors      \* config_environment_errors of the last validation

vars ==
  <<yaml, noop, remoteEnvs, remotePolicies, nextPolicyId, remoteKeepsNames, pc, run, envIdx,
    subIdx, reviewersWithId, toRemove, repoPolicies, error, calls, tolerated,
    upserts, remoteAtStart, configErrors>>

\* what no run changes: the .asf.yaml, the no-op switch, the server's habit
fixed == <<yaml, noop, remoteKeepsNames>>

NoEnv ==
  [exists |-> FALSE, wait_timer |-> 0, reviewers |-> <<>>,
   protected_branches |-> FALSE, custom_branch_policies |-> FALSE]

\* ReviewerParams(type_, id_)
ReviewerParams(type, id) == [type |-> type, id |-> id]

\* Settings of an environment that exists before the first run.
OldEnv ==
  [exists |-> TRUE, wait_timer |-> 30, reviewers |-> <<ReviewerParams("User", 99)>>,
   protected_branches |-> FALSE, custom_branch_policies |-> TRUE]

NoArgs ==
  [wait_timer |-> 0, reviewers |-> <<>>, protected_branches |-> FALSE,
   custom_branch_policies |-> FALSE]

NoError == [kind |-> "none", message |-> "", status |-> 0, errors |-> <<>>]

\* A remote call as recorded: every entry has every field, the unused ones
\* hold fillers.
NoCall ==
  [op |-> "", run |-> 0, env |-> <<>>, segment |-> <<>>, user |-> "", id |-> 0,
   name |-> "", args |-> NoArgs, status |-> 0, ok |-> TRUE,
   names |-> <<>>, policies |-> <<>>]

Ctl(p, e, n) == [pc |-> p, envIdx |-> e, subIdx |-> n]

Goto(c) == pc' = c.pc /\ envIdx' = c.envIdx /\ subIdx' = c.subIdx

Environments == yaml.environments

EnvNameAt(n) == Environments[n].name
EnvConfigAt(n) == Environments[n].config

DesiredNames == {Environments[n].name : n \in 1..Len(Environments)}

\* ------------------------------------------------------------- the remote
RemoteMessage(status) ==
  CASE status = 404 -> "Not Found"
    [] status = 304 -> "Not Modified"
    [] status = 422 -> "Validation Failed"
    [] OTHER -> "OK"

\* get_environments(): the names of the environments of the repository
RemoteEnvironmentNames(envs) ==
  SelectSeq(EnvOrder, LAMBDA n : envs[n].exists)

\* PUT /environments/{name}: creates the environment or overwrites its settings
RemoteCreateEnvironment(envs, name, args) ==
  [envs EXCEPT ![name] =
     [exists |-> TRUE, wait_timer |-> args.wait_timer, reviewers |-> args.reviewers,
      protected_branches |-> args.protected_branches,
      custom_branch_policies |-> args.custom_branch_policies]]

RemoteDeleteEnvironment(envs, name) == [envs EXCEPT ![name] = NoEnv]

\* the branch policies of an environment as the GET returns them: by id
RECURSIVE SortById(_)
SortById(ps) ==
  IF ps = {} THEN <<>>
  ELSE LET first == CHOOSE p \in ps : \A q \in ps : p.id <= q.id
       IN <<first>> \o SortById(ps \ {first})

\* the statuses the server may answer a POST of a policy with
PostStatuses(policies, segment, name) ==
  IF Route(segment) \notin EnvNames THEN {404}
  ELSE {303, 304, 422}
       \cup (IF remoteKeepsNames /\ \E p \in policies[Route(segment)] : p.name = name
               THEN {200} ELSE {201})

\* 201: a new policy entry, also when one of that name exists already
RemotePostPolicy(policies, segment, name, status, id) ==
  IF status = 201
  THEN [policies EXCEPT ![Route(segment)] = @ \cup {[id |-> id, name |-> name]}]
  ELSE policies

DeleteStatuses(policies, segment, id) ==
  IF Route(segment) \notin EnvNames THEN {404}
  ELSE IF \E p \in policies[Route(segment)] : p.id = id THEN {204, 200, 404}
  ELSE {404}

RemoteDeletePolicy(policies, segment, id, status) ==
  IF status \in {200, 204}
  THEN [policies EXCEPT ![Route(segment)] = {p \in @ : p.id # id}]
  ELSE policies

\* ------------------------------------------------------------ control flow
ReviewersAt(n) == GetOr(EnvConfigAt(n), "required_reviewers", <<>>)

\* env_config.get("deployment_branch_policy", {}).get("policies")
PoliciesAt(n) == GetOr(DbpOf(EnvConfigAt(n)), "policies", <<>>)

\* (a slip: the deletion passes gated by the mapping, not by the key)
AfterUpsertsWhenDesired ==
  IF Environments # <<>> THEN Ctl("get_environments", 0, 0) ELSE Ctl("done", 0, 0)

\* "environments" in self.yaml, after the upsert loop
AfterUpserts ==
  IF yaml.has_environments THEN Ctl("get_environments", 0, 0) ELSE Ctl("done", 0, 0)

\* create_deployment_environment(...) for the n-th item: the list
\* comprehension over required_reviewers comes first
StartUpsert(n) ==
  IF ReviewersAt(n) = <<>> THEN Ctl("create_environment", n, 0)
  ELSE Ctl("get_user_id", n, 1)

NextEnvironment(n) ==
  IF n < Len(Environments) THEN StartUpsert(n + 1) ELSE AfterUpserts

\* (a slip: the policies created whatever the mode)
AfterCreateEnvironmentAnyMode(n) ==
  IF PoliciesAt(n) # <<>> THEN Ctl("create_policy", n, 1) ELSE NextEnvironment(n)

\* if env_config.get("deployment_branch_policy", {}).get("custom_branch_policies"):
\*     create_deployment_branch_policy(...), which returns at once without policies
AfterCreateEnvironment(n) ==
  IF GetFlag(DbpOf(EnvConfigAt(n)), "custom_branch_policies") /\ PoliciesAt(n) # <<>>
  THEN Ctl("create_policy", n, 1)
  ELSE NextEnvironment(n)

\* is_protected_branches of the deletion pass: .get("protected_branches"), no default
SkipsPolicyDeletion(env_config) == GetFlag(DbpOf(env_config), "protected_branches")

\* the loop over environment_names, from the n-th item on
RECURSIVE PolicyPassFrom(_)
PolicyPassFrom(n) ==
  IF n > Len(Environments) THEN Ctl("done", 0, 0)
  ELSE IF SkipsPolicyDeletion(EnvConfigAt(n)) THEN PolicyPassFrom(n + 1)
  ELSE Ctl("get_deployment_policies", n, 0)

\* if environments: (the branch policy deletion pass)
AfterEnvironmentDeletion ==
  IF Environments # <<>> THEN PolicyPassFrom(1) ELSE Ctl("done", 0, 0)

\* asf_config_environment_policy_names
PolicyNamesAt(n) ==
  [m \in 1..Len(PoliciesAt(n)) |-> PoliciesAt(n)[m].name]

\* (a slip: "in" for "not in")
IsStaleInverted(policy, names) == policy.name \in Range(names)

\* repo_deployment_branch_policy_name not in asf_config_environment_policy_names
IsStale(policy, names) == policy.name \notin Range(names)

\* the loop over repo_deployment_branch_policies, from position m on: the next
\* policy to delete, or the next environment
NextStale(n, policies, m) ==
  IF \E q \in m..Len(policies) : IsStale(policies[q], PolicyNamesAt(n))
  THEN Ctl("delete_policy", n,
           CHOOSE q \in m..Len(policies) :
             /\ IsStale(policies[q], PolicyNamesAt(n))
             /\ \A r \in m..(q - 1) : ~IsStale(policies[r], PolicyNamesAt(n)))
  ELSE PolicyPassFrom(n + 1)

\* ---------------------------------------------------------------- raising
Raise(e) == pc' = "error" /\ error' = e /\ UNCHANGED <<envIdx, subIdx>>

ValidationException(errors) ==
  [kind |-> "Exception", message |-> "Invalid Environment Configurations Found",
   status |-> 0, errors |-> errors]

\* "[GitHub] Request error with message: \"%s\". (status code: %s)"
RequestException(status) ==
  [kind |-> "Exception", message |-> RemoteMessage(status), status |-> status,
   errors |-> <<>>]

\* what pygithub raises when a call of it fails
GithubException(op) ==
  [kind |-> "GithubException", message |-> op, status |-> 0, errors |-> <<>>]

Log(c) == calls' = Append(calls, [c EXCEPT !.run = run])

\* ---------------------------------------------------------------- actions
\* deployment_environments, from its entry to its first remote call
\* (a slip: raising only on several errors)
ShouldRaiseOnSeveral(errors) == Len(errors) > 1

\* if config_environment_errors: raise
ShouldRaise(errors) == errors # <<>>

Begin ==
  /\ pc = "start"
  /\ LET errors == validate_environment_configs(Environments)
     IN IF noop
          THEN Goto(Ctl("done", 0, 0)) /\ UNCHANGED <<error, configErrors>>
        ELSE IF Environments # <<>> /\ ShouldRaise(errors)
          THEN Raise(ValidationException(errors)) /\ configErrors' = errors
        ELSE IF Environments # <<>>
          THEN Goto(StartUpsert(1)) /\ error' = error /\ configErrors' = errors
        ELSE Goto(AfterUpserts) /\ UNCHANGED <<error, configErrors>>
  /\ UNCHANGED <<fixed, remoteEnvs, remotePolicies, nextPolicyId, run,
                 reviewersWithId, toRemove, repoPolicies, calls, upserts,
                 tolerated, remoteAtStart>>

\* (a slip: the comprehension stops one reviewer early)
AfterReviewerStopsEarly(n, m) ==
  IF m + 1 < Len(ReviewersAt(n)) THEN Ctl("get_user_id", n, m + 1)
  ELSE Ctl("create_environment", n, 0)

\* for reviewer in required_reviewers
AfterReviewer(n, m) ==
  IF m < Len(ReviewersAt(n)) THEN Ctl("get_user_id", n, m + 1)
  ELSE Ctl("create_environment", n, 0)

\* (a slip: one list shared by all calls, each call adding to it)
ReviewersSoFarShared(list, m) == list

\* required_reviewers_with_id = [...]: the comprehension starts a new list, so
\* before the m-th reviewer the list holds the first m - 1 of this call
ReviewersSoFar(list, m) == IF m = 1 THEN <<>> ELSE list

\* get_user_id(gh_session, reviewer.get("id")) for one reviewer of the list
GetUserId ==
  /\ pc = "get_user_id"
  /\ LET reviewer == ReviewersAt(envIdx)[subIdx]
         lookup == [NoCall EXCEPT !.op = "resolveUserId", !.user = reviewer.id.s]
     IN \/ /\ reviewer.id.is_int
           /\ reviewersWithId' =
                Append(ReviewersSoFar(reviewersWithId, subIdx),
                       ReviewerParams(reviewer.type, reviewer.id.n))
           /\ Goto(AfterReviewer(envIdx, subIdx))
           /\ UNCHANGED <<calls, error>>
        \/ /\ ~reviewer.id.is_int
           /\ Log([lookup EXCEPT !.id = UserIds[reviewer.id.s]])
           /\ reviewersWithId' =
                Append(ReviewersSoFar(reviewersWithId, subIdx),
                       ReviewerParams(reviewer.type, UserIds[reviewer.id.s]))
           /\ Goto(AfterReviewer(envIdx, subIdx))
           /\ UNCHANGED error
        \/ /\ ~reviewer.id.is_int
           /\ Log([lookup EXCEPT !.ok = FALSE])
           /\ Raise(GithubException("get_user"))
           /\ UNCHANGED reviewersWithId
  /\ UNCHANGED <<fixed, remoteEnvs, remotePolicies, nextPolicyId, run,
                 toRemove, repoPolicies, upserts, tolerated, remoteAtStart, configErrors>>

\* the arguments of gh_repo.create_environment(...)
UpsertArgs(env_config, reviewers) ==
  [wait_timer |-> GetOr(env_config, "wait_timer", DefaultWaitTimer),
   reviewers |-> reviewers,
   protected_branches |-> GetOr(DbpOf(env_config), "protected_branches", TRUE),
   custom_branch_policies |->
     GetOr(DbpOf(env_config), "custom_branch_policies", FALSE)]

CreateEnvironment ==
  /\ pc = "create_environment"
  /\ LET args == UpsertArgs(EnvConfigAt(envIdx),
                            IF ReviewersAt(envIdx) = <<>>
                              THEN ReviewersSoFar(reviewersWithId, 1)
                              ELSE reviewersWithId)
         call == [NoCall EXCEPT !.op = "createOrUpdateEnvironment",
                                !.env = EnvNameAt(envIdx), !.args = args]
     IN \/ /\ Log(call)
           /\ remoteEnvs' = RemoteCreateEnvironment(remoteEnvs, EnvNameAt(envIdx), args)
           /\ upserts' =
                Append(upserts,
                       [run |-> run, env |-> EnvNameAt(envIdx), args |-> args,
                        settings |->
                          RemoteCreateEnvironment(remoteEnvs, EnvNameAt(envIdx),
                                                  args)[EnvNameAt(envIdx)]])
           /\ Goto(AfterCreateEnvironment(envIdx))
           /\ UNCHANGED <<error, reviewersWithId>>
        \/ /\ Log([call EXCEPT !.ok = FALSE])
           /\ Raise(GithubException("create_environment"))
           /\ UNCHANGED <<remoteEnvs, reviewersWithId, upserts>>
  /\ UNCHANGED <<fixed, remotePolicies, nextPolicyId, run, toRemove,
                 repoPolicies, tolerated, remoteAtStart, configErrors>>

\* (a slip: "<" for "<=")
PostOkBelow(status) == MinOkStatus <= status /\ status < MaxOkStatus

\* if not (200 <= response.status_code <= 303): raise
PostOk(status) == MinOkStatus <= status /\ status <= MaxOkStatus

AfterCreatePolicy(n, m) ==
  IF m < Len(PoliciesAt(n)) THEN Ctl("create_policy", n, m + 1)
  ELSE NextEnvironment(n)

\* one turn of the loop of create_deployment_branch_policy
CreatePolicy ==
  /\ pc = "create_policy"
  /\ LET segment == Quote(EnvNameAt(envIdx))
         policy == PoliciesAt(envIdx)[subIdx]
     IN \E status \in PostStatuses(remotePolicies, segment, policy.name) :
          /\ status = MaxOkStatus => tolerated < MaxTolerated
          /\ tolerated' = IF status = MaxOkStatus THEN tolerated + 1 ELSE tolerated
          /\ Log([NoCall EXCEPT !.op = "createBranchPolicy",
                                !.env = EnvNameAt(envIdx), !.segment = segment,
                                !.name = policy.name, !.status = status,
                                !.id = IF status = 201 THEN nextPolicyId ELSE 0,
                                !.ok = PostOk(status)])
          /\ remotePolicies' =
               RemotePostPolicy(remotePolicies, segment, policy.name, status,
                                nextPolicyId)
          /\ nextPolicyId' = IF status = 201 THEN nextPolicyId + 1 ELSE nextPolicyId
          /\ IF PostOk(status)
               THEN Goto(AfterCreatePolicy(envIdx, subIdx)) /\ error' = error
               ELSE Raise(RequestException(status))
  /\ UNCHANGED <<fixed, remoteEnvs, run, reviewersWithId, toRemove,
                 repoPolicies, upserts, remoteAtStart, configErrors>>

\* all orders of a finite set
Orders(S) == {o \in [1..Cardinality(S) -> S] : Range(o) = S}

\* (a slip: the desired names are not taken out)
EnvironmentsToBeRemovedAll(repo_environment_names) == {repo_environment_names}

\* environments_to_be_removed: list(set(...) - set(...)) has no fixed order
EnvironmentsToBeRemoved(repo_environment_names) ==
  IF Environments # <<>>
  THEN Orders(Range(repo_environment_names) \ DesiredNames)
  ELSE {repo_environment_names}

GetEnvironments ==
  /\ pc = "get_environments"
  /\ LET call == [NoCall EXCEPT !.op = "listEnvironments"]
         names == RemoteEnvironmentNames(remoteEnvs)
     IN \/ \E removed \in EnvironmentsToBeRemoved(names) :
             /\ Log([call EXCEPT !.names = names])
             /\ toRemove' = removed
             /\ Goto(IF removed # <<>> THEN Ctl("delete_environment", 0, 1)
                     ELSE AfterEnvironmentDeletion)
             /\ UNCHANGED error
        \/ /\ Log([call EXCEPT !.ok = FALSE])
           /\ Raise(GithubException("get_environments"))
           /\ UNCHANGED toRemove
  /\ UNCHANGED <<fixed, remoteEnvs, remotePolicies, nextPolicyId, run,
                 reviewersWithId, repoPolicies, upserts, tolerated, remoteAtStart,
                 configErrors>>

\* self.ghrepo.delete_environment(env_to_delete)
DeleteEnvironment ==
  /\ pc = "delete_environment"
  /\ LET name == toRemove[subIdx]
         call == [NoCall EXCEPT !.op = "deleteEnvironment", !.env = name]
     IN \/ /\ Log(call)
           /\ remoteEnvs' = RemoteDeleteEnvironment(remoteEnvs, name)
           /\ remotePolicies' = [remotePolicies EXCEPT ![name] = {}]
           /\ IF subIdx < Len(toRemove)
                THEN Goto(Ctl("delete_environment", 0, subIdx + 1))
                     /\ toRemove' = toRemove
                ELSE Goto(AfterEnvironmentDeletion) /\ toRemove' = <<>>
           /\ UNCHANGED error
        \/ /\ Log([call EXCEPT !.ok = FALSE])
           /\ Raise(GithubException("delete_environment"))
           /\ UNCHANGED <<remoteEnvs, remotePolicies, toRemove>>
  /\ UNCHANGED <<fixed, nextPolicyId, run, reviewersWithId, repoPolicies,
                 upserts, tolerated, remoteAtStart, configErrors>>

\* the statuses the server may answer the GET of the policies with
GetStatuses(segment) == IF Route(segment) \in EnvNames THEN {200, 404} ELSE {404}

\* rsp.json().get("branch_policies", []): the status is not looked at, and the
\* body of an error response holds a message and no branch_policies
ParsedPolicies(policies, segment, status) ==
  IF status = 200 THEN SortById(policies[Route(segment)]) ELSE <<>>

\* get_deployment_policies(repo_name, gh_token, env_name)
GetDeploymentPolicies ==
  /\ pc = "get_deployment_policies"
  /\ LET segment == Quote(EnvNameAt(envIdx))
     IN \E status \in GetStatuses(segment) :
          LET returned == ParsedPolicies(remotePolicies, segment, status)
              next == NextStale(envIdx, returned, 1)
          IN /\ status # 200 => tolerated < MaxTolerated
             /\ tolerated' = IF status # 200 THEN tolerated + 1 ELSE tolerated
             /\ Log([NoCall EXCEPT !.op = "listBranchPolicies",
                                   !.env = EnvNameAt(envIdx), !.segment = segment,
                                   !.status = status, !.ok = (status = 200),
                                   !.policies = returned])
             /\ repoPolicies' = IF next.pc = "delete_policy" THEN returned ELSE <<>>
             /\ Goto(next)
  /\ UNCHANGED <<fixed, remoteEnvs, remotePolicies, nextPolicyId, run,
                 reviewersWithId, toRemove, error, upserts, remoteAtStart, configErrors>>

\* validate_204_response
DeleteOk(status) == status = NoContentStatus

\* delete_deployment_branch_policy(...) for the next stale policy
DeletePolicy ==
  /\ pc = "delete_policy"
  /\ LET segment == Quote(EnvNameAt(envIdx))
         policy == repoPolicies[subIdx]
         next == NextStale(envIdx, repoPolicies, subIdx + 1)
     IN \E status \in DeleteStatuses(remotePolicies, segment, policy.id) :
          /\ Log([NoCall EXCEPT !.op = "deleteBranchPolicy",
                                !.env = EnvNameAt(envIdx), !.segment = segment,
                                !.id = policy.id, !.name = policy.name,
                                !.status = status, !.ok = DeleteOk(status)])
          /\ remotePolicies' =
               RemoteDeletePolicy(remotePolicies, segment, policy.id, status)
          /\ IF DeleteOk(status)
               THEN /\ Goto(next)
                    /\ repoPolicies' =
                         IF next.pc = "delete_policy" THEN repoPolicies ELSE <<>>
                    /\ error' = error
               ELSE Raise(RequestException(status)) /\ repoPolicies' = repoPolicies
  /\ UNCHANGED <<fixed, remoteEnvs, nextPolicyId, run, reviewersWithId,
                 toRemove, upserts, tolerated, remoteAtStart, configErrors>>

\* the directive runs again on the same .asf.yaml
Restart ==
  /\ pc = "done"
  /\ run < MaxRuns
  /\ run' = run + 1
  /\ pc' = "start"
  /\ calls' = <<>>
  /\ remoteAtStart' = [envs |-> remoteEnvs, policies |-> remotePolicies]
  /\ configErrors' = <<>>
  /\ UNCHANGED <<fixed, remoteEnvs, remotePolicies, nextPolicyId, envIdx,
                 subIdx, reviewersWithId, toRemove, repoPolicies, error, upserts,
                 tolerated>>

\* ------------------------------------------------------------ initial states
\* the policy lists of a configuration: main, rel, main, ... cut at each length
PolicySeqs ==
  {[m \in 1..len |-> Policy(IF m % 2 = 1 THEN "main" ELSE "rel")] :
     len \in 0..MaxPolicies}

ReviewerChoices ==
  Opt(SeqsUpTo(Reviewers, MaxReviewers) \cup {SixReviewers, TooManyReviewers}, <<>>)

BaseReviewers == [has |-> TRUE, val |-> <<RevUser("alice"), RevInt(7)>>]
NoWaitTimer == [has |-> FALSE, val |-> 0]
AbsentDbp == [has |-> FALSE, val |-> NoDbp]

\* The configurations of a mapping of one environment: each field varies over
\* all its values while the others keep a base value.
SingleConfigs ==
  {EnvConfig(r, NoWaitTimer, AbsentDbp) : r \in ReviewerChoices}
  \cup {EnvConfig(BaseReviewers, w, AbsentDbp) : w \in Opt({10}, 0)}
  \cup {EnvConfig(BaseReviewers, NoWaitTimer, d) : d \in DbpChoices(PolicySeqs)}

\* The configurations of a mapping of several environments: one per branch
\* policy mode, and one that validation rejects.
PairConfigs ==
  {EnvConfig(BaseReviewers, NoWaitTimer, d) :
     d \in {AbsentDbp,
            [has |-> TRUE, val |-> Dbp("true", "absent", [has |-> FALSE, val |-> <<>>])],
            [has |-> TRUE,
             val |-> Dbp("false", "true", [has |-> TRUE, val |-> <<Policy("main")>>])],
            [has |-> TRUE,
             val |-> Dbp("absent", "true",
                         [has |-> TRUE, val |-> <<Policy("main"), Policy("rel")>>])]}}
  \cup {EnvConfig([has |-> FALSE, val |-> <<>>], NoWaitTimer, AbsentDbp)}

Item(name, config) == [name |-> name, config |-> config]

\* the ordered mappings of environments with distinct names
Mappings ==
  {<<>>}
  \cup {<<Item(n, c)>> : n \in EnvNames, c \in SingleConfigs}
  \cup {<<Item(o[1], c1), Item(o[2], c2)>> :
          o \in Orders(EnvNames), c1 \in PairConfigs, c2 \in PairConfigs}

Yamls ==
  {[has_environments |-> FALSE, environments |-> <<>>]}
  \cup {[has_environments |-> TRUE, environments |-> m] : m \in Mappings}

\* the policies an environment may hold before the first run
InitialPolicies(name) ==
  LET base == IF name = EnvOrder[1] THEN 10 ELSE 20
  IN {{}, {[id |-> base + 1, name |-> "main"], [id |-> base + 2, name |-> StalePolicyName]}}

\* the repository gives a new policy an id above every id in use
FirstPolicyId ==
  LET used == {p.id : p \in UNION UNION {InitialPolicies(n) : n \in EnvNames}}
  IN 1 + CHOOSE i \in used : \A j \in used : j <= i

\* what every run starts with, whatever the .asf.yaml and the repository
InitLocals ==
  /\ nextPolicyId = FirstPolicyId
  /\ pc = "start"
  /\ run = 1
  /\ envIdx = 0
  /\ subIdx = 0
  /\ reviewersWithId = <<>>
  /\ toRemove = <<>>
  /\ repoPolicies = <<>>
  /\ error = NoError
  /\ calls = <<>>
  /\ upserts = <<>>
  /\ tolerated = 0
  /\ configErrors = <<>>
  /\ remoteAtStart = [envs |-> remoteEnvs, policies |-> remotePolicies]

Init ==
  /\ yaml \in Yamls
  /\ noop \in BOOLEAN
  /\ remoteKeepsNames \in BOOLEAN
  /\ \E existing \in SUBSET EnvNames :
       /\ remoteEnvs = [n \in EnvNames |-> IF n \in existing THEN OldEnv ELSE NoEnv]
       /\ remotePolicies \in
            {f \in [EnvNames -> UNION {InitialPolicies(n) : n \in EnvNames}] :
               \A n \in EnvNames :
                 IF n \in existing THEN f[n] \in InitialPolicies(n) ELSE f[n] = {}}
  /\ InitLocals

Next ==
  \/ Begin
  \/ GetUserId
  \/ CreateEnvironment
  \/ CreatePolicy
  \/ GetEnvironments
  \/ DeleteEnvironment
  \/ GetDeploymentPolicies
  \/ DeletePolicy
  \/ Restart

Spec == Init /\ [][Next]_vars

\* ------------------------------------------- the validator on its own
\* validate_environment_configs is a function of the mapping alone: it is
\* applied here to mappings that no run of the directive needs to get through.
ValidatedReviewers ==
  Opt({[n \in 1..len |-> RevInt(7)] : len \in 0..(MaxAllowedReviewers + MaxOverLimit)},
      <<>>)

ValidatedConfigs ==
  {EnvConfig(r, NoWaitTimer, d) : r \in ValidatedReviewers, d \in DbpChoices(PolicySeqs)}

ValidatedMappings ==
  {<<>>}
  \cup {<<Item(EnvOrder[1], c)>> : c \in ValidatedConfigs}
  \cup {<<Item(EnvOrder[1], c1), Item(EnvOrder[2], c2)>> :
          c1 \in ValidatedConfigs, c2 \in ValidatedConfigs}

InitValidate ==
  /\ yaml \in {[has_environments |-> TRUE, environments |-> m] : m \in ValidatedMappings}
  /\ noop = FALSE
  /\ remoteKeepsNames = FALSE
  /\ remoteEnvs = [n \in EnvNames |-> NoEnv]
  /\ remotePolicies = [n \in EnvNames |-> {}]
  /\ InitLocals

\* config_environment_errors = validate_environment_configs(environments)
Validate ==
  /\ pc = "start"
  /\ configErrors' = validate_environment_configs(Environments)
  /\ pc' = "validated"
  /\ UNCHANGED <<fixed, remoteEnvs, remotePolicies, nextPolicyId, run, envIdx,
                 subIdx, reviewersWithId, toRemove, repoPolicies, error, calls,
                 tolerated, upserts, remoteAtStart>>

NextValidate == Validate

SpecValidate == InitValidate /\ [][NextValidate]_vars

\* ------------------------------------------------------------- properties
MutatingOps ==
  {"createOrUpdateEnvironment", "createBranchPolicy", "deleteEnvironment",
   "deleteBranchPolicy"}

CallsOf(op) == {n \in 1..Len(calls) : calls[n].op = op}

Existing(envs) == {n \in EnvNames : envs[n].exists}

RemoteUnchanged ==
  remoteEnvs = remoteAtStart.envs /\ remotePolicies = remoteAtStart.policies

EnvPosition(name) == CHOOSE n \in 1..Len(Environments) : Environments[n].name = name

\* the policy names an environment's configuration asks for, read off the
\* configuration itself
DesiredPolicyNames(config) ==
  IF "deployment_branch_policy" \in config.keys
     /\ "policies" \in config.deployment_branch_policy.keys
  THEN {config.deployment_branch_policy.policies[m].name :
          m \in 1..Len(config.deployment_branch_policy.policies)}
  ELSE {}

\* C1: when validate_environment_configs returns errors for a non-empty mapping,
\* the run raises that list before any mutating remote call, and the
\* repository is as the run found it.
FailFastValidation ==
  (/\ ~noop
   /\ pc # "start"
   /\ Environments # <<>>
   /\ validate_environment_configs(Environments) # <<>>)
  => /\ pc = "error"
     /\ error.errors = validate_environment_configs(Environments)
     /\ \A n \in 1..Len(calls) : calls[n].op \notin MutatingOps
     /\ RemoteUnchanged

\* a run stopped by validation although its first environment is valid and the
\* repository holds environments
FailFastValidationWitness ==
  /\ pc = "error"
  /\ error.errors # <<>>
  /\ Len(Environments) = 2
  /\ \A n \in 1..Len(error.errors) : error.errors[n].env = Environments[2].name
  /\ Existing(remoteEnvs) = EnvNames

\* C2: in a run with the environments key that completes, deleteEnvironment is
\* called once for each listed name that is not desired and for no other name
\* (for every listed name when the mapping is empty), the listed names are those
\* the repository held plus the desired ones, and no desired environment is
\* ever deleted.
EnvironmentDeletionPass ==
  /\ \A d \in CallsOf("deleteEnvironment") : calls[d].env \notin DesiredNames
  /\ (pc = "done" /\ ~noop /\ yaml.has_environments)
     => /\ Cardinality(CallsOf("listEnvironments")) = 1
        /\ \A l \in CallsOf("listEnvironments") :
             /\ Range(calls[l].names) = Existing(remoteAtStart.envs) \cup DesiredNames
             /\ \A name \in EnvNames :
                  Cardinality({d \in CallsOf("deleteEnvironment") : calls[d].env = name})
                    = IF name \in Range(calls[l].names) \ DesiredNames THEN 1 ELSE 0
             /\ Environments = <<>>
                  => \A name \in Range(calls[l].names) :
                       \E d \in CallsOf("deleteEnvironment") : calls[d].env = name
        /\ Existing(remoteEnvs) = DesiredNames

\* a completed run that deleted an environment and kept a desired one that the
\* repository held already
EnvironmentDeletionPassWitness ==
  /\ pc = "done"
  /\ Len(Environments) = 1
  /\ Existing(remoteAtStart.envs) = EnvNames
  /\ Cardinality(CallsOf("deleteEnvironment")) = 1

\* C3: for an environment whose policies the deletion pass lists, the ids passed
\* to deleteBranchPolicy are ids of listed policies whose name is not a desired
\* policy name, each once, and all of them once the environment's turn is over;
\* every desired environment with protected_branches false is listed in a
\* completed run; and no createBranchPolicy call follows the listing of the
\* environments.
BranchPolicyDeletionPass ==
  /\ \A l \in CallsOf("listBranchPolicies") :
       LET env == calls[l].env
           stale == {p.id : p \in {q \in Range(calls[l].policies) :
                       q.name \notin DesiredPolicyNames(EnvConfigAt(EnvPosition(env)))}}
           dels == {d \in CallsOf("deleteBranchPolicy") : calls[d].env = env}
           over == \/ pc = "done"
                   \/ \E later \in CallsOf("listBranchPolicies") : later > l
       IN /\ env \in DesiredNames
          /\ \A d \in dels : d > l /\ calls[d].id \in stale /\ Route(calls[d].segment) = env
          /\ \A d1, d2 \in dels : calls[d1].id = calls[d2].id => d1 = d2
          /\ over => {calls[d].id : d \in dels} = stale
  /\ \A d \in CallsOf("deleteBranchPolicy") :
       \E l \in CallsOf("listBranchPolicies") : calls[l].env = calls[d].env
  /\ \A c \in CallsOf("createBranchPolicy"), l \in CallsOf("listEnvironments") : c < l
  /\ (pc = "done" /\ ~noop /\ yaml.has_environments)
     => \A n \in 1..Len(Environments) :
          LET config == EnvConfigAt(n)
          IN ("deployment_branch_policy" \in config.keys
              /\ "protected_branches" \in config.deployment_branch_policy.keys
              /\ ~config.deployment_branch_policy.protected_branches)
             => \E l \in CallsOf("listBranchPolicies") : calls[l].env = EnvNameAt(n)

\* a completed run in custom mode that found the policies main and old, asked
\* for main and rel, and deleted old alone
BranchPolicyDeletionPassWitness ==
  /\ pc = "done"
  /\ \E l \in CallsOf("listBranchPolicies") :
       /\ {p.name : p \in Range(calls[l].policies)} = {"main", "old", "rel"}
       /\ DesiredPolicyNames(EnvConfigAt(EnvPosition(calls[l].env))) = {"main", "rel"}
       /\ \E d \in CallsOf("deleteBranchPolicy") :
            /\ calls[d].env = calls[l].env
            /\ calls[d].name = "old"
            /\ calls[d].ok
       /\ Cardinality({d \in CallsOf("deleteBranchPolicy") : calls[d].env = calls[l].env}) = 1

\* C4 (as claimed): no listBranchPolicies and no deleteBranchPolicy call is made
\* for an environment that the run's create_environment call configured with
\* protected_branches true.
ProtectedBranchesSkip ==
  \A n \in CallsOf("listBranchPolicies") \cup CallsOf("deleteBranchPolicy") :
    \A u \in CallsOf("createOrUpdateEnvironment") :
      (calls[u].env = calls[n].env /\ calls[u].ok) => ~calls[u].args.protected_branches

ErrorsNaming(name, msg) ==
  {m \in 1..Len(configErrors) : configErrors[m] = [env |-> name, error |-> msg]}

\* C5: the validator's list names an environment with the missing-reviewers
\* message when its required_reviewers is absent or empty, and with the
\* too-many message when it has more than 6 reviewers; an environment with 1 to
\* 6 reviewers has neither entry.
ReviewerCountValidation ==
  pc = "validated"
  => \A n \in 1..Len(Environments) :
       LET name == Environments[n].name
           config == Environments[n].config
           present == "required_reviewers" \in config.keys
           count == Len(config.required_reviewers)
       IN /\ (~present \/ count = 0) => ErrorsNaming(name, ErrReviewersMissing) # {}
          /\ (present /\ count > 6) => ErrorsNaming(name, ErrTooManyReviewers) # {}
          /\ (present /\ count >= 1 /\ count <= 6)
             => /\ ErrorsNaming(name, ErrReviewersMissing) = {}
                /\ ErrorsNaming(name, ErrTooManyReviewers) = {}

\* a validated mapping whose first environment has 6 reviewers and no reviewer
\* entry and whose second has 7 and is flagged
ReviewerCountValidationWitness ==
  /\ pc = "validated"
  /\ Len(Environments) = 2
  /\ Len(Environments[1].config.required_reviewers) = 6
  /\ Len(Environments[2].config.required_reviewers) = 7
  /\ ErrorsNaming(Environments[1].name, ErrTooManyReviewers) = {}
  /\ ErrorsNaming(Environments[2].name, ErrTooManyReviewers) # {}

\* the four rules, read off the configuration itself
RuleViolated(config, msg) ==
  LET hasDbp == "deployment_branch_policy" \in config.keys
      dbp == config.deployment_branch_policy
      custom == hasDbp /\ "custom_branch_policies" \in dbp.keys
                  /\ dbp.custom_branch_policies
      protected == hasDbp /\ "protected_branches" \in dbp.keys /\ dbp.protected_branches
  IN CASE msg = ErrReviewersMissing ->
            "required_reviewers" \notin config.keys \/ config.required_reviewers = <<>>
       [] msg = ErrTooManyReviewers ->
            "required_reviewers" \in config.keys /\ Len(config.required_reviewers) > 6
       [] msg = ErrBothModes -> custom /\ protected
       [] msg = ErrPoliciesMissing ->
            custom /\ ("policies" \notin dbp.keys \/ dbp.policies = <<>>)

RuleMessages ==
  {ErrReviewersMissing, ErrTooManyReviewers, ErrBothModes, ErrPoliciesMissing}

\* C6: the validator's list holds exactly one entry for each violated
\* (environment, rule) pair and nothing else, so it is empty exactly when no
\* rule is violated; rule (c) is flagged whatever the other fields hold.
ValidatorAccumulates ==
  pc = "validated"
  => LET expected ==
           {e \in {[env |-> Environments[n].name, error |-> msg] :
                     n \in 1..Len(Environments), msg \in RuleMessages} :
              RuleViolated(EnvConfigAt(EnvPosition(e.env)), e.error)}
     IN /\ Range(configErrors) = expected
        /\ Len(configErrors) = Cardinality(expected)
        /\ (configErrors = <<>>)
             <=> \A n \in 1..Len(Environments), msg \in RuleMessages :
                   ~RuleViolated(EnvConfigAt(n), msg)

\* a validated mapping whose first environment breaks rules (a), (c) and (d) at
\* once and whose second breaks rule (b): four entries
ValidatorAccumulatesWitness ==
  /\ pc = "validated"
  /\ Len(Environments) = 2
  /\ Len(configErrors) = 4
  /\ ErrorsNaming(Environments[1].name, ErrReviewersMissing) # {}
  /\ ErrorsNaming(Environments[1].name, ErrBothModes) # {}
  /\ ErrorsNaming(Environments[1].name, ErrPoliciesMissing) # {}
  /\ ErrorsNaming(Environments[2].name, ErrTooManyReviewers) # {}

LastCallRaised(n) == n = Len(calls) /\ pc = "error"

\* C7: a createBranchPolicy call raises exactly when its status is outside
\* 200..303 and a deleteBranchPolicy call exactly when its status is not 204;
\* the error carries the remote message and the status, no call follows the
\* failed one, and the environments this run upserted keep their settings.
PolicyCallAborts ==
  /\ \A n \in CallsOf("createBranchPolicy") \cup CallsOf("deleteBranchPolicy") :
       LET success == IF calls[n].op = "createBranchPolicy"
                        THEN calls[n].status >= 200 /\ calls[n].status <= 303
                        ELSE calls[n].status = 204
       IN /\ success <=> ~LastCallRaised(n)
          /\ LastCallRaised(n)
             => /\ error.kind = "Exception"
                /\ error.status = calls[n].status
                /\ error.message = RemoteMessage(calls[n].status)
                /\ \A m \in 1..Len(upserts) :
                     upserts[m].run = run
                     => remoteEnvs[upserts[m].env] = upserts[m].settings
  /\ pc = "error" => ~ENABLED Next

\* a run of two environments stopped by status 304 on a policy of the first:
\* the first stays upserted, the second is never upserted
PolicyCallAbortsWitness ==
  /\ pc = "error"
  /\ Len(Environments) = 2
  /\ calls # <<>>
  /\ calls[Len(calls)].op = "createBranchPolicy"
  /\ calls[Len(calls)].status = 304
  /\ calls[Len(calls)].env = EnvNameAt(1)
  /\ remoteEnvs[EnvNameAt(1)].exists
  /\ ~remoteEnvs[EnvNameAt(2)].exists

\* C8 (as claimed): a listBranchPolicies call answered with a status other than
\* 200 ends the run with an error at that call.
ReadFailureAborts ==
  \A n \in CallsOf("listBranchPolicies") :
    calls[n].status # 200 => LastCallRaised(n)

\* C9: all successful create_environment calls for one environment, in this
\* run and the runs before, sent the same arguments and left the same settings
\* in the repository, which are the arguments sent.
UpsertIdempotent ==
  /\ \A a, b \in 1..Len(upserts) :
       upserts[a].env = upserts[b].env
       => /\ upserts[a].args = upserts[b].args
          /\ upserts[a].settings = upserts[b].settings
  /\ \A a \in 1..Len(upserts) :
       upserts[a].settings =
         [exists |-> TRUE, wait_timer |-> upserts[a].args.wait_timer,
          reviewers |-> upserts[a].args.reviewers,
          protected_branches |-> upserts[a].args.protected_branches,
          custom_branch_policies |-> upserts[a].args.custom_branch_policies]

\* an environment upserted in two runs, the first time over settings that
\* differ from the ones asked for
UpsertIdempotentWitness ==
  \E a, b \in 1..Len(upserts) :
    /\ upserts[a].env = upserts[b].env
    /\ upserts[a].run = 1
    /\ upserts[b].run = 2
    /\ upserts[a].args.reviewers # <<>>
    /\ run = 2
    /\ pc = "done"

UsernamesOf(reviewers) ==
  LET named == SelectSeq(reviewers, LAMBDA r : ~r.id.is_int)
  IN [m \in 1..Len(named) |-> named[m].id.s]

\* the resolveUserId calls between the create_environment call at u and the one
\* before it
LookupsBefore(u) ==
  LET before == {v \in CallsOf("createOrUpdateEnvironment") : v < u}
      from == IF before = {} THEN 1
              ELSE 1 + CHOOSE v \in before : \A w \in before : w <= v
  IN SelectSeq(SubSeq(calls, from, u - 1), LAMBDA c : c.op = "resolveUserId")

\* C10: the reviewers sent by create_environment are those of the
\* configuration in its order, an integer id as it is and a username as
\* resolveUserId gives it; the lookups made for the call are those of its
\* usernames, in order; and a failed lookup ends the run at that call.
ReviewerResolution ==
  /\ \A u \in CallsOf("createOrUpdateEnvironment") :
       LET wanted == EnvConfigAt(EnvPosition(calls[u].env)).required_reviewers
           sent == calls[u].args.reviewers
           lookups == LookupsBefore(u)
       IN /\ Len(sent) = Len(wanted)
          /\ \A m \in 1..Len(wanted) :
               /\ sent[m].type = wanted[m].type
               /\ sent[m].id = IF wanted[m].id.is_int THEN wanted[m].id.n
                               ELSE UserIds[wanted[m].id.s]
          /\ [m \in 1..Len(lookups) |-> lookups[m].user] = UsernamesOf(wanted)
          /\ \A m \in 1..Len(lookups) :
               lookups[m].ok /\ lookups[m].id = UserIds[lookups[m].user]
  /\ \A n \in CallsOf("resolveUserId") : ~calls[n].ok => LastCallRaised(n)

\* a create_environment call that sent alice's id and then 7, after one lookup
ReviewerResolutionWitness ==
  \E u \in CallsOf("createOrUpdateEnvironment") :
    /\ calls[u].ok
    /\ [m \in 1..Len(calls[u].args.reviewers) |-> calls[u].args.reviewers[m].id]
         = <<42, 7>>
    /\ Len(LookupsBefore(u)) = 1

DeletionPassOps ==
  {"listEnvironments", "deleteEnvironment", "listBranchPolicies", "deleteBranchPolicy"}

\* C11: without the environments key a run makes no listEnvironments,
\* deleteEnvironment, listBranchPolicies or deleteBranchPolicy call and leaves
\* the repository as it found it; with the key, a run that gets through its
\* upserts lists the environments once, also for an empty mapping, and then
\* deletes all it listed; and an empty mapping makes no listBranchPolicies and
\* no deleteBranchPolicy call.
PassGating ==
  /\ ~yaml.has_environments
       => /\ \A n \in 1..Len(calls) : calls[n].op \notin DeletionPassOps
          /\ RemoteUnchanged
          /\ pc \in {"start", "done"}
  /\ (yaml.has_environments /\ ~noop /\ pc = "done")
       => /\ Cardinality(CallsOf("listEnvironments")) = 1
          /\ Environments = <<>>
               => /\ \A l \in CallsOf("listEnvironments") :
                       /\ l = 1
                       /\ Range(calls[l].names) = Existing(remoteAtStart.envs)
                       /\ {calls[d].env : d \in CallsOf("deleteEnvironment")}
                            = Range(calls[l].names)
                  /\ Existing(remoteEnvs) = {}
  /\ Environments = <<>>
       => CallsOf("listBranchPolicies") \cup CallsOf("deleteBranchPolicy") = {}

\* a completed run on an empty mapping under the key, in a repository whose
\* environments held branch policies: both environments deleted, no policy call
PassGatingWitness ==
  /\ pc = "done"
  /\ ~noop
  /\ yaml.has_environments
  /\ Environments = <<>>
  /\ \A n \in EnvNames : remoteAtStart.envs[n].exists /\ remoteAtStart.policies[n] # {}
  /\ Cardinality(CallsOf("deleteEnvironment")) = 2
  /\ CallsOf("listBranchPolicies") = {}

\* an environment configured with custom_branch_policies true
CustomMode(config) ==
  /\ "deployment_branch_policy" \in config.keys
  /\ "custom_branch_policies" \in config.deployment_branch_policy.keys
  /\ config.deployment_branch_policy.custom_branch_policies

\* C12 (as claimed): every completed run makes one createBranchPolicy call per
\* policy of a custom-mode environment, and after a completed run whose calls
\* all succeeded such an environment holds at most one policy per desired name
\* and no policy of another name.
DuplicatePruning ==
  (/\ pc = "done"
   /\ ~noop
   /\ yaml.has_environments
   /\ \A c \in 1..Len(calls) : calls[c].ok)
  => \A n \in 1..Len(Environments) :
       LET env == EnvNameAt(n)
           config == EnvConfigAt(n)
       IN CustomMode(config)
          => /\ Cardinality({c \in CallsOf("createBranchPolicy") : calls[c].env = env})
                  = Len(config.deployment_branch_policy.policies)
             /\ \A p \in remotePolicies[env] : p.name \in DesiredPolicyNames(config)
             /\ \A p, q \in remotePolicies[env] : p.name = q.name => p = q

\* the part of a run a call belongs to: upserts, environment deletion, branch
\* policy deletion
PhaseOf(op) ==
  CASE op \in {"resolveUserId", "createOrUpdateEnvironment", "createBranchPolicy"} -> 1
    [] op \in {"listEnvironments", "deleteEnvironment"} -> 2
    [] OTHER -> 3

\* the createBranchPolicy calls of the run for one environment
CreatesFor(env) == {c \in CallsOf("createBranchPolicy") : calls[c].env = env}

\* C13: in a run, every createOrUpdateEnvironment and createBranchPolicy call
\* precedes the one listEnvironments call and every deleteEnvironment call, and
\* these precede every listBranchPolicies and deleteBranchPolicy call; an
\* environment's createBranchPolicy calls follow its own upsert, are made only
\* when its custom_branch_policies is true, and name its policies in the order
\* of the configuration, all of them once the run is complete.
RunOrdering ==
  /\ \A i, j \in 1..Len(calls) : i < j => PhaseOf(calls[i].op) <= PhaseOf(calls[j].op)
  /\ Cardinality(CallsOf("listEnvironments")) <= 1
  /\ \A d \in CallsOf("deleteEnvironment") :
       \E l \in CallsOf("listEnvironments") : l < d
  /\ \A c \in CallsOf("createBranchPolicy") :
       LET env == calls[c].env
           config == EnvConfigAt(EnvPosition(env))
           nth == Cardinality({d \in CreatesFor(env) : d <= c})
           ups == {u \in CallsOf("createOrUpdateEnvironment") : calls[u].env = env}
       IN /\ env \in DesiredNames
          /\ CustomMode(config)
          /\ Cardinality(ups) = 1
          /\ \A u \in ups :
               /\ u < c
               /\ calls[u].ok
               /\ calls[u].args.custom_branch_policies
               /\ \A k \in (u + 1)..c : calls[k].op = "createBranchPolicy"
                                          /\ calls[k].env = env
          /\ nth <= Len(config.deployment_branch_policy.policies)
          /\ calls[c].name = config.deployment_branch_policy.policies[nth].name
  /\ (pc = "done" /\ ~noop)
       => \A n \in 1..Len(Environments) :
            Cardinality(CreatesFor(EnvNameAt(n)))
              = IF CustomMode(EnvConfigAt(n))
                  THEN Len(EnvConfigAt(n).deployment_branch_policy.policies)
                  ELSE 0

\* a completed run that made calls of every kind: an upsert, two policies
\* created in the order main, rel, an environment and a policy deleted
RunOrderingWitness ==
  /\ pc = "done"
  /\ \A op \in MutatingOps \cup DeletionPassOps : CallsOf(op) # {}
  /\ \E c1, c2 \in CallsOf("createBranchPolicy") :
       /\ c1 < c2
       /\ calls[c1].name = "main"
       /\ calls[c2].name = "rel"
       /\ calls[c1].env = calls[c2].env
====
